---- MODULE Spec2Model ----
(***************************************************************************)
(* serde-partial: a value is paired with a field filter (Partial) and      *)
(* serialized through a proxy (PartialSerializer) that sits between the    *)
(* value's own Serialize implementation and the backend serializer.        *)
(*                                                                         *)
(* One behaviour is a short session on one container value: a Partial is   *)
(* built with with_fields / without_fields (or the value is serialized     *)
(* unwrapped), the value's Serialize implementation drives the proxy call  *)
(* by call, and the backend records every call it receives.                *)
(***************************************************************************)
EXTENDS Integers, Sequences, FiniteSets, TLC

----------------------------------------------------------------------------
(* Bounds of the exploration *)

\* longest sequence of Fields the select closure returns
MaxSel == 3
\* the backend may fail at its n-th call, n in 1..MaxFail (0: it never fails)
MaxFail == 5
\* number of lone keys / lone values submitted to one PartialSerializeMap
MaxLone == 2
\* number of serializations of the same value in one session
MaxRuns == 2
\* largest total field count handed to filtered_len
MaxTotal == 2
\* how many InverseFilters are wrapped around one filter
MaxWrap == 2

----------------------------------------------------------------------------
(* The containers *)

\* the derived struct of the doc test: serialized names in declared order
UserNames == <<"fullName", "age", "contact">>
\* the name the derived Serialize impl passes to serialize_struct
UserStructName == "User"
\* the field values of USER, in declared order (abstract scalars)
UserValue == <<<<"fullName", 1>>, <<"age", 2>>, <<"contact", 3>>>>
\* a name that is not a serialized name of User (its in-memory identifier)
UnknownName == "email"

\* one declared field as the derive macro reads it: the identifier (its
\* snake_case words), serde(rename = ..) ("" if absent), serde(skip_serializing)
Decl(words, rename, skipSer) ==
    [ident |-> words, rename |-> rename, skip_serializing |-> skipSer]
\* struct User of the doc test, under serde(rename_all = "camelCase")
UserDecl == <<Decl(<<"full", "name">>, "", FALSE),
              Decl(<<"age">>, "", FALSE),
              Decl(<<"email">>, "contact", FALSE)>>
UserRenameAll == "camelCase"

\* a derived struct with a never-serialized field, an optional field and a
\* field whose value is itself a struct or a map:
\*   struct Post<M> { id: u8,
\*                    #[serde(skip_serializing)] secret: u8,
\*                    #[serde(skip_serializing_if = "Option::is_none")]
\*                    note: Option<u8>,
\*                    meta: M }
PostDecl == <<Decl(<<"id">>, "", FALSE),
              Decl(<<"secret">>, "", TRUE),
              Decl(<<"note">>, "", FALSE),
              Decl(<<"meta">>, "", FALSE)>>
PostRenameAll == "none"
PostStructName == "Post"
\* the never-serialized field of Post
SkippedName == "secret"
\* the two values of meta: struct Author { id, name } and a map with the
\* key "id"; both have a field named like a field of Post
AuthorValue == <<<<"id", 7>>, <<"name", 8>>>>
LabelsValue == <<<<"id", 9>>>>
\* what Post's Serialize impl submits, as <<key, value, present, nested>>:
\* an optional field that is None is submitted as skip_field(key); nested
\* is what a struct or map value consists of
PostValues ==
    {<<<<"id", 1, TRUE, <<>>>>, <<"note", 2, p, <<>>>>, <<"meta", 0, TRUE, m>>>> :
        p \in BOOLEAN, m \in {AuthorValue, LabelsValue}}

\* an internally tagged derived struct:
\*   #[serde(tag = "type")] struct Event { id: u8 }
\* its Serialize impl submits the tag as the first field of the struct
EventDecl == <<Decl(<<"id">>, "", FALSE)>>
EventRenameAll == "none"
EventStructName == "Event"
EventTag == "type"
EventValue == <<<<EventTag, 0>>, <<"id", 1>>>>

\* string keys of the maps, in their natural (Ord) order
MapKeys == <<"a", "c">>
\* a string that is never a key of the map
UnknownKey == "z"

Kinds == {"struct", "post", "tagged", "transparent", "btree", "hash"}
MapKinds == {"btree", "hash"}
\* the kinds whose Serialize impl calls serialize_struct
StructKinds == {"struct", "post", "tagged"}

Range(s) == {s[i] : i \in DOMAIN s}

\* Option<usize>: None is the empty sequence, Some(n) the one-element one
None == <<>>
Some(n) == <<n>>

\* Field::new / Field::name: a Field is its name (the owner type is a
\* compile-time tag only)
Field_new(name) == name

\* whether the Serialize impl submits the field with its value
Present(e) == IF Len(e) < 3 THEN TRUE ELSE e[3]
\* what the value of the field consists of, if it is a struct or a map
Nested(e) == IF Len(e) < 4 THEN <<>> ELSE e[4]

----------------------------------------------------------------------------
(* The serialized names the derive macro works with *)

\* the identifier as written: its words joined by underscores
RECURSIVE Ident(_)
Ident(words) ==
    IF Len(words) = 1 THEN words[1]
    ELSE words[1] \o "_" \o Ident(Tail(words))

\* the word with its first letter in upper case
Capitalize(w) ==
    CASE w = "full" -> "Full" [] w = "name" -> "Name" [] w = "age" -> "Age"
      [] w = "email" -> "Email" [] w = "id" -> "Id" [] w = "secret" -> "Secret"
      [] w = "note" -> "Note" [] w = "meta" -> "Meta"

RECURSIVE PascalCase(_)
PascalCase(words) ==
    IF words = <<>> THEN ""
    ELSE Capitalize(Head(words)) \o PascalCase(Tail(words))

\* the rename_all rule applied to an identifier: camelCase is PascalCase
\* with the first word left in lower case
apply_to_field(rule, words) ==
    CASE rule = "camelCase" -> Head(words) \o PascalCase(Tail(words))
      [] rule = "PascalCase" -> PascalCase(words)
      [] rule = "none" -> Ident(words)

\* f.attrs.rename_by_rules(attrs.rename_all_rules()), then
\* f.attrs.name().serialize_name(): an explicit rename wins over the rule
serialize_name(f, rule) ==
    IF f.rename # "" THEN f.rename ELSE apply_to_field(rule, f.ident)

\* (mutation: the Field Set carries the in-memory identifiers)
fields_struct_names_idents(decl, rule) ==
    LET kept == SelectSeq(decl, LAMBDA f : ~f.skip_serializing)
    IN [i \in DOMAIN kept |-> Ident(kept[i].ident)]
\* fields.retain(|f| !f.attrs.skip_serializing()) and fields_struct_names:
\* the serialized names of the retained fields, in declared order
fields_struct_names(decl, rule) ==
    LET kept == SelectSeq(decl, LAMBDA f : ~f.skip_serializing)
    IN [i \in DOMAIN kept |-> serialize_name(kept[i], rule)]

----------------------------------------------------------------------------
(* Filters.  A filter value is one of                                      *)
(*   [shape |-> "gen", flags |-> [name -> BOOLEAN]]   derive-generated     *)
(*   [shape |-> "set", fields |-> set of names]       BTreeSet / HashSet   *)
(*   [shape |-> "inv", inner |-> filter]              InverseFilter        *)
(*   [shape |-> "user", skips |-> set of names, count |-> Option<usize>]   *)
(*        some other implementor of SerializeFilter: the names it skips    *)
(*        and the count it reports                                         *)

\* #[derive(Default)] on the generated filter struct: every flag false
GenFilter_default(names) ==
    [shape |-> "gen", flags |-> [n \in Range(names) |-> FALSE]]

\* generated SerializeFilter::skip: the match on field.name() has one arm per
\* serialized name and a panicking default arm
GenFilter_skip_panics(f, name) == name \notin DOMAIN f.flags
\* (mutation: the flag is read without the negation)
GenFilter_skip_inverted(f, name) == f.flags[name]
GenFilter_skip(f, name) == ~f.flags[name]

\* BTreeSet<Field> / HashSet<Field> as filters
SetFilter_skip(f, name) == ~(Field_new(name) \in f.fields)
SetFilter_filtered_len(f, len) == Some(Cardinality(f.fields))

\* InverseFilter::new
InverseFilter_new(filter) == [shape |-> "inv", inner |-> filter]

\* InverseFilter::skip, given the wrapped filter's answer
InverseFilter_skip(innerSkip) == ~innerSkip

\* (mutation: the wrapped filter's count is returned as it is)
InverseFilter_filtered_len_same(len, innerLen) ==
    IF len # None /\ innerLen # None THEN innerLen ELSE None
\* InverseFilter::filtered_len, given len and the wrapped filter's answer.
\* usize subtraction: a negative number stands for the arithmetic overflow
\* of len - filtered_len (panic in a debug build, wrap-around in release).
InverseFilter_filtered_len(len, innerLen) ==
    IF len # None /\ innerLen # None THEN Some(len[1] - innerLen[1]) ELSE None

\* dynamic dispatch of SerializeFilter::skip over the filter shapes
RECURSIVE skip_panics(_, _)
skip_panics(f, name) ==
    CASE f.shape = "gen" -> GenFilter_skip_panics(f, name)
      [] f.shape = "set" -> FALSE
      [] f.shape = "user" -> FALSE
      [] f.shape = "inv" -> skip_panics(f.inner, name)

RECURSIVE skip(_, _)
skip(f, name) ==
    CASE f.shape = "gen" -> GenFilter_skip(f, name)
      [] f.shape = "set" -> SetFilter_skip(f, name)
      [] f.shape = "user" -> name \in f.skips
      [] f.shape = "inv" -> InverseFilter_skip(skip(f.inner, name))

\* SerializeFilter::filtered_len (filter.rs); the derive-generated filter
\* has no filtered_len, so this is used on map filters only
RECURSIVE filtered_len(_, _)
filtered_len(f, len) ==
    CASE f.shape = "set" -> SetFilter_filtered_len(f, len)
      [] f.shape = "user" -> f.count
      [] f.shape = "inv" ->
            InverseFilter_filtered_len(len, filtered_len(f.inner, len))

----------------------------------------------------------------------------
(* with_fields / without_fields *)

\* the generated with_fields: `for filtered in select(fields)` sets one flag
\* per returned Field and panics at the first name that matches no arm
\* (mutation: a name that matches no arm is passed over instead of panicking)
RECURSIVE derive_with_fields_loop_lenient(_, _, _)
derive_with_fields_loop_lenient(filter, sel, i) ==
    IF i > Len(sel) THEN [panic |-> FALSE, filter |-> filter]
    ELSE IF sel[i] \in DOMAIN filter.flags
         THEN derive_with_fields_loop_lenient(
                  [filter EXCEPT !.flags[sel[i]] = TRUE], sel, i + 1)
         ELSE derive_with_fields_loop_lenient(filter, sel, i + 1)

RECURSIVE derive_with_fields_loop(_, _, _)
derive_with_fields_loop(filter, sel, i) ==
    IF i > Len(sel) THEN [panic |-> FALSE, filter |-> filter]
    ELSE IF sel[i] \in DOMAIN filter.flags
         THEN derive_with_fields_loop(
                  [filter EXCEPT !.flags[sel[i]] = TRUE], sel, i + 1)
         ELSE [panic |-> TRUE, filter |-> filter]

derive_with_fields(names, sel) ==
    derive_with_fields_loop(GenFilter_default(names), sel, 1)

\* (mutation: only the first Field the closure returns is kept)
map_with_fields_first(sel) ==
    [panic |-> FALSE,
     filter |-> [shape |-> "set",
                 fields |-> IF sel = <<>> THEN {} ELSE {sel[1]}]]
\* BTreeMap / HashMap with_fields: select(fields).into_iter().collect()
map_with_fields(sel) ==
    [panic |-> FALSE, filter |-> [shape |-> "set", fields |-> Range(sel)]]

\* SerializePartial::without_fields: with_fields, then InverseFilter::new
without_fields(withResult) ==
    IF withResult.panic THEN withResult
    ELSE [panic |-> FALSE, filter |-> InverseFilter_new(withResult.filter)]

----------------------------------------------------------------------------
(* The backend and the proxy.  A backend call is recorded as               *)
(* [op, key, n, entries]: the operation, its string argument, its numeric  *)
(* argument and, for collect_map, the entries handed over.                 *)

Call(op, key, n, entries) == [op |-> op, key |-> key, n |-> n, entries |-> entries]

Ok == "Ok"
\* the error value of the backend (S::Error), returned by a failing call
BackendErr == "Err(backend)"

\* Serializer methods the proxy hands to the wrapped serializer as they are
ForwardOps ==
    {"is_human_readable", "serialize_bool", "serialize_i8", "serialize_i16",
     "serialize_i32", "serialize_i64", "serialize_i128", "serialize_u8",
     "serialize_u16", "serialize_u32", "serialize_u64", "serialize_u128",
     "serialize_f32", "serialize_f64", "serialize_char", "serialize_str",
     "serialize_bytes", "serialize_none", "serialize_some", "serialize_unit",
     "serialize_unit_struct", "serialize_unit_variant",
     "serialize_newtype_struct", "serialize_newtype_variant", "serialize_seq",
     "serialize_tuple", "serialize_tuple_struct", "serialize_tuple_variant",
     "serialize_map", "serialize_struct_variant", "collect_str", "collect_seq"}

\* (mutation: the struct is begun without its declared length)
PartialSerializer_serialize_struct_no_len(name, len) ==
    Call("serialize_struct", name, 0, <<>>)
\* (mutation: the struct is begun under an empty name)
PartialSerializer_serialize_struct_unnamed(name, len) ==
    Call("serialize_struct", "", len, <<>>)
\* PartialSerializer::serialize_struct: s.serialize_struct(name, len)?
PartialSerializer_serialize_struct(name, len) ==
    Call("serialize_struct", name, len, <<>>)

\* (mutation: the 128-bit integers are handed on as 64-bit ones)
PartialSerializer_forward_narrow(op, arg) ==
    Call(CASE op = "serialize_i128" -> "serialize_i64"
           [] op = "serialize_u128" -> "serialize_u64"
           [] OTHER -> op, "", arg, <<>>)
\* PartialSerializer::serialize_bool .. collect_seq: self.s.<op>(v)
PartialSerializer_forward(op, arg) == Call(op, "", arg, <<>>)

\* PartialSerializer::collect_map: self.s.collect_map(iter)
PartialSerializer_collect_map(entries) == Call("collect_map", "", 0, entries)

\* PartialSerializeStruct::skip_field: self.ss.skip_field(key)
PartialSerializeStruct_skip_field(key) == Call("skip_field", key, 0, <<>>)

\* PartialSerializeStruct::serialize_field: the Fields it hands to
\* filter.skip
PartialSerializeStruct_asks(key) == <<Field_new(key)>>

\* (mutation: the filter is not consulted, every field is serialized)
PartialSerializeStruct_serialize_field_unfiltered(filter, key, val, nested) ==
    Call("serialize_field", key, val, nested)
\* (mutation: the value is wrapped in a Partial with the same filter, so
\* the fields of a struct or map value are filtered as well)
PartialSerializeStruct_serialize_field_deep(filter, key, val, nested) ==
    IF skip(filter, Field_new(key))
    THEN PartialSerializeStruct_skip_field(key)
    ELSE Call("serialize_field", key, val,
              SelectSeq(nested, LAMBDA e :
                  \/ skip_panics(filter, Field_new(e[1]))
                  \/ ~skip(filter, Field_new(e[1]))))
\* PartialSerializeStruct::serialize_field; the value (nested: what a
\* struct or map value consists of) goes to the backend as it is
PartialSerializeStruct_serialize_field(filter, key, val, nested) ==
    IF skip(filter, Field_new(key))
    THEN PartialSerializeStruct_skip_field(key)
    ELSE Call("serialize_field", key, val, nested)

\* PartialSerializeStruct::end: self.ss.end()
PartialSerializeStruct_end == Call("end", "", 0, <<>>)

----------------------------------------------------------------------------
(* The map adapter (PartialSerializeMap) and its key serializer *)

KEY_ERR == "key should serialize to a string"
\* the messages of serialize_key / serialize_value (without the backquotes
\* around serialize_entry)
LONE_KEY_ERR ==
    "cannot perform partial serialization of lone keys, use serialize_entry instead if possible"
LONE_VALUE_ERR ==
    "cannot perform partial serialization of lone values, use serialize_entry instead if possible"
\* serde's provided Serializer::serialize_i128 / serialize_u128, which
\* KeySerializer does not override
I128_ERR == "i128 is not supported"
U128_ERR == "u128 is not supported"

\* the Serializer method a key's Serialize impl calls
KeyOps ==
    {"serialize_bool", "serialize_i8", "serialize_i16", "serialize_i32",
     "serialize_i64", "serialize_i128", "serialize_u8", "serialize_u16",
     "serialize_u32", "serialize_u64", "serialize_u128", "serialize_f32",
     "serialize_f64", "serialize_char", "serialize_str", "serialize_bytes",
     "serialize_none", "serialize_some", "serialize_unit",
     "serialize_unit_struct", "serialize_unit_variant",
     "serialize_newtype_struct", "serialize_newtype_variant", "serialize_seq",
     "serialize_tuple", "serialize_tuple_struct", "serialize_tuple_variant",
     "serialize_map", "serialize_struct", "serialize_struct_variant"}

\* impl Serializer for KeySerializer: Ok(skip) for a string, Err otherwise
KeySerializer(filter, keyop, key) ==
    CASE keyop = "serialize_str" ->
            [err |-> "", skip |-> skip(filter, Field_new(key))]
      [] keyop = "serialize_i128" -> [err |-> I128_ERR, skip |-> FALSE]
      [] keyop = "serialize_u128" -> [err |-> U128_ERR, skip |-> FALSE]
      [] OTHER -> [err |-> KEY_ERR, skip |-> FALSE]

\* The adapter's methods answer with [err, calls]: the error they return on
\* their own ("" for none) and the calls they make on the backend's map
\* serializer sm, whose result they return.

\* (mutation: the lone key is handed to the backend's map serializer)
PartialSerializeMap_serialize_key_forwarded(key) ==
    [err |-> "", calls |-> <<Call("serialize_key", key, 0, <<>>)>>]
\* PartialSerializeMap::serialize_key
PartialSerializeMap_serialize_key(key) == [err |-> LONE_KEY_ERR, calls |-> <<>>]

\* PartialSerializeMap::serialize_value
PartialSerializeMap_serialize_value(val) == [err |-> LONE_VALUE_ERR, calls |-> <<>>]

\* KeySerializer::serialize_str: the Fields it hands to filter.skip (the
\* other methods return their error without a look at the filter)
KeySerializer_asks(keyop, key) ==
    IF keyop = "serialize_str" THEN <<Field_new(key)>> ELSE <<>>

\* (mutation: an entry the filter skips is handed to the backend all the same)
PartialSerializeMap_serialize_entry_all(filter, keyop, key, val) ==
    LET k == KeySerializer(filter, keyop, key) IN
    IF k.err # "" THEN [err |-> k.err, calls |-> <<>>]
    ELSE [err |-> "", calls |-> <<Call("serialize_entry", key, val, <<>>)>>]
\* PartialSerializeMap::serialize_entry
PartialSerializeMap_serialize_entry(filter, keyop, key, val) ==
    LET k == KeySerializer(filter, keyop, key) IN
    IF k.err # "" THEN [err |-> k.err, calls |-> <<>>]
    ELSE IF k.skip THEN [err |-> "", calls |-> <<>>]
    ELSE [err |-> "", calls |-> <<Call("serialize_entry", key, val, <<>>)>>]

\* PartialSerializeMap::end: self.sm.end()
PartialSerializeMap_end == [err |-> "", calls |-> <<Call("end", "", 0, <<>>)>>]

----------------------------------------------------------------------------
(* State *)

VARIABLES
    kind,       \* the container type of the value
    value,      \* what its Serialize impl submits: <<key, value>> pairs in order
    failAt,     \* the backend fails at this call of a run (0: never)
    pc,         \* "new", "ready", "fields", "map", "done", "panicked"
    mode,       \* "with", "without", "direct" (unwrapped), "none"
    selSet,     \* the names the select closure returned
    filter,     \* the filter of the Partial
    log,        \* the calls the backend received in this run, in order
    res,        \* what the last call returned to the value's Serialize impl
    pos,        \* next field of the struct to submit
    via,        \* the session drives "serialize" (Partial::serialize) or the
                \* map "adapter" (PartialSerializeMap)
    keyOp,      \* the Serializer method the map's key type serializes with
    submitted,  \* the calls made on the map adapter
    prev,       \* the previous finished run of the session
    nruns,      \* finished runs
    asked,      \* the Fields handed to filter.skip in this run, in order
    answer      \* the last direct call on a filter: [op, arg, out]

vars == <<kind, value, failAt, pc, mode, selSet, filter, log, res, pos, via,
          keyOp, submitted, prev, nruns, asked, answer>>

NoFilter == [shape |-> "none"]
NoRun == [mode |-> "none", selSet |-> {}, filter |-> NoFilter, log |-> <<>>,
          res |-> "none"]
NoAnswer == [op |-> "none"]

SeqsUpTo(S, n) == UNION {[1..k -> S] : k \in 0..n}
Perms(S) == {p \in [1..Cardinality(S) -> S] : Range(p) = S}

\* the value stored under a key of the map
MapValueOf(k) == 10 + (CHOOSE i \in DOMAIN MapKeys : MapKeys[i] = k)
Entries(order) == [i \in DOMAIN order |-> <<order[i], MapValueOf(order[i])>>]
\* BTreeMap iterates in key order, HashMap in an arbitrary order
BTreeValues ==
    {Entries(SelectSeq(MapKeys, LAMBDA k : k \in ks)) : ks \in SUBSET Range(MapKeys)}
HashValues ==
    UNION {{Entries(p) : p \in Perms(ks)} : ks \in SUBSET Range(MapKeys)}
\* a struct whose Serialize impl hands its single field to the serializer
\* (serde(transparent)): one call of a Serializer method with one argument
TransparentNames == <<"inner">>
TransparentValues == {<<<<op, a>>>> : op \in ForwardOps, a \in {0, 1}}

Values(k) ==
    CASE k = "struct" -> {UserValue}
      [] k = "post" -> PostValues
      [] k = "tagged" -> {EventValue}
      [] k = "transparent" -> TransparentValues
      [] k = "btree" -> BTreeValues
      [] k = "hash" -> HashValues

\* the name the derived Serialize impl passes to serialize_struct
StructName(k) ==
    CASE k = "struct" -> UserStructName
      [] k = "post" -> PostStructName
      [] k = "tagged" -> EventStructName
\* the length it passes: the number of fields it is going to serialize
StructLen(v) == Len(SelectSeq(v, Present))

\* the serialized names of the derive-generated Field Set
FieldNames(k) ==
    CASE k = "struct" -> fields_struct_names(UserDecl, UserRenameAll)
      [] k = "post" -> fields_struct_names(PostDecl, PostRenameAll)
      [] k = "tagged" -> fields_struct_names(EventDecl, EventRenameAll)
      [] k = "transparent" -> TransparentNames
\* the names a select closure may come up with
SelUniverse(k) ==
    CASE k \in MapKinds -> Range(MapKeys) \cup {UnknownKey}
      [] k = "struct" -> Range(FieldNames(k)) \cup {UnknownName}
      [] k = "post" -> Range(FieldNames(k)) \cup {SkippedName}
      [] OTHER -> Range(FieldNames(k)) \cup {UnknownName}

Keys(v) == {v[i][1] : i \in DOMAIN v}

Init ==
    /\ kind \in Kinds
    /\ value \in Values(kind)
    /\ failAt \in 0..MaxFail
    /\ pc = "new"
    /\ mode = "none"
    /\ selSet = {}
    /\ filter = NoFilter
    /\ log = <<>>
    /\ res = "none"
    /\ pos = 0
    /\ via \in (IF kind \in MapKinds THEN {"serialize", "adapter"} ELSE {"serialize"})
    /\ keyOp = "none"
    /\ submitted = <<>>
    /\ prev = NoRun
    /\ nruns = 0
    /\ asked = <<>>
    /\ answer = NoAnswer

\* the backend's answer to the call just appended to the log
BackendResult(newLog) ==
    IF failAt # 0 /\ Len(newLog) = failAt THEN BackendErr ELSE Ok

----------------------------------------------------------------------------
(* Building the Partial *)

with_fields(k, sel) ==
    IF k \in MapKinds THEN map_with_fields(sel)
    ELSE derive_with_fields(FieldNames(k), sel)

Built(r, m, sel) ==
    /\ mode' = m
    /\ selSet' = Range(sel)
    /\ IF r.panic
       THEN /\ pc' = "panicked"
            /\ res' = "panic"
            /\ UNCHANGED filter
       ELSE /\ pc' = "ready"
            /\ filter' = r.filter
            /\ UNCHANGED res
    /\ UNCHANGED <<kind, value, failAt, log, pos, via, keyOp, submitted, prev, nruns,
                   asked, answer>>

WithFields ==
    /\ pc = "new"
    /\ \E sel \in SeqsUpTo(SelUniverse(kind), MaxSel) :
          Built(with_fields(kind, sel), "with", sel)

WithoutFields ==
    /\ pc = "new"
    /\ \E sel \in SeqsUpTo(SelUniverse(kind), MaxSel) :
          Built(without_fields(with_fields(kind, sel)), "without", sel)

\* the value is serialized as it is, without a Partial
Unwrapped ==
    /\ pc = "new"
    /\ via = "serialize"
    /\ mode' = "direct"
    /\ pc' = "ready"
    /\ UNCHANGED <<kind, value, failAt, selSet, filter, log, res, pos, via,
                   keyOp, submitted, prev, nruns, asked, answer>>

----------------------------------------------------------------------------
(* Serializing: Partial::serialize wraps the backend in a PartialSerializer *)
(* and runs the value's own Serialize impl on it; in mode "direct" the same *)
(* Serialize impl runs on the backend itself.                               *)

\* derived Serialize, first call: serializer.serialize_struct(name, len)?
SerializeStruct ==
    /\ pc = "ready"
    /\ via = "serialize"
    /\ kind \in StructKinds
    /\ LET call == IF mode = "direct"
                   THEN Call("serialize_struct", StructName(kind), StructLen(value), <<>>)
                   ELSE PartialSerializer_serialize_struct(StructName(kind),
                                                           StructLen(value))
           newLog == Append(log, call)
           r == BackendResult(newLog)
       IN /\ log' = newLog
          /\ res' = r
          /\ pc' = IF r = Ok THEN "fields" ELSE "done"
          /\ pos' = 1
    /\ UNCHANGED <<kind, value, failAt, mode, selSet, filter, via, keyOp, submitted,
                   prev, nruns, asked, answer>>

\* derived Serialize, one field: state.serialize_field(key, &self.field)?
SerializeField ==
    /\ pc = "fields"
    /\ pos <= Len(value)
    /\ Present(value[pos])
    /\ LET key == value[pos][1]
           val == value[pos][2]
           nested == Nested(value[pos])
       IN IF mode # "direct" /\ skip_panics(filter, Field_new(key))
          THEN /\ pc' = "panicked"
               /\ res' = "panic"
               /\ asked' = asked \o PartialSerializeStruct_asks(key)
               /\ UNCHANGED <<log, pos>>
          ELSE LET call == IF mode = "direct"
                           THEN Call("serialize_field", key, val, nested)
                           ELSE PartialSerializeStruct_serialize_field(
                                    filter, key, val, nested)
                   newLog == Append(log, call)
                   r == BackendResult(newLog)
               IN /\ log' = newLog
                  /\ res' = r
                  /\ pc' = IF r = Ok THEN "fields" ELSE "done"
                  /\ pos' = pos + 1
                  /\ asked' = IF mode = "direct" THEN asked
                              ELSE asked \o PartialSerializeStruct_asks(key)
    /\ UNCHANGED <<kind, value, failAt, mode, selSet, filter, via, keyOp, submitted,
                   prev, nruns, answer>>

\* derived Serialize, one field under skip_serializing_if whose predicate
\* holds: state.skip_field(key)?
SerializeSkipField ==
    /\ pc = "fields"
    /\ pos <= Len(value)
    /\ ~Present(value[pos])
    /\ LET key == value[pos][1]
           call == IF mode = "direct" THEN Call("skip_field", key, 0, <<>>)
                   ELSE PartialSerializeStruct_skip_field(key)
           newLog == Append(log, call)
           r == BackendResult(newLog)
       IN /\ log' = newLog
          /\ res' = r
          /\ pc' = IF r = Ok THEN "fields" ELSE "done"
          /\ pos' = pos + 1
    /\ UNCHANGED <<kind, value, failAt, mode, selSet, filter, via, keyOp, submitted,
                   prev, nruns, asked, answer>>

\* derived Serialize, last call: state.end()
SerializeEnd ==
    /\ pc = "fields"
    /\ pos > Len(value)
    /\ LET call == IF mode = "direct" THEN Call("end", "", 0, <<>>)
                   ELSE PartialSerializeStruct_end
           newLog == Append(log, call)
       IN /\ log' = newLog
          /\ res' = BackendResult(newLog)
          /\ pc' = "done"
    /\ UNCHANGED <<kind, value, failAt, mode, selSet, filter, pos, via, keyOp,
                   submitted, prev, nruns, asked, answer>>

\* Serialize for BTreeMap / HashMap: serializer.collect_map(self).  The
\* proxy's collect_map (like its serialize_map) calls the wrapped serializer;
\* no PartialSerializeMap is built on this path.
SerializeMapValue ==
    /\ pc = "ready"
    /\ via = "serialize"
    /\ kind \in MapKinds
    /\ LET call == IF mode = "direct" THEN Call("collect_map", "", 0, value)
                   ELSE PartialSerializer_collect_map(value)
           newLog == Append(log, call)
       IN /\ log' = newLog
          /\ res' = BackendResult(newLog)
          /\ pc' = "done"
    /\ UNCHANGED <<kind, value, failAt, mode, selSet, filter, pos, via, keyOp,
                   submitted, prev, nruns, asked, answer>>

\* Serialize of a transparent struct: one call of some other Serializer method
SerializeOther ==
    /\ pc = "ready"
    /\ kind = "transparent"
    /\ LET op == value[1][1]
           arg == value[1][2]
           call == IF mode = "direct" THEN Call(op, "", arg, <<>>)
                   ELSE PartialSerializer_forward(op, arg)
           newLog == Append(log, call)
       IN /\ log' = newLog
          /\ res' = BackendResult(newLog)
          /\ pc' = "done"
    /\ UNCHANGED <<kind, value, failAt, mode, selSet, filter, pos, via, keyOp,
                   submitted, prev, nruns, asked, answer>>

----------------------------------------------------------------------------
(* Driving a PartialSerializeMap { sm, filter } built over the backend's    *)
(* map serializer and the filter of the Partial.  The map submits its       *)
(* entries in its iteration order; keyOp is the Serializer method the key   *)
(* type's Serialize impl calls.                                             *)

OpenMap ==
    /\ pc = "ready"
    /\ via = "adapter"
    /\ pc' = "map"
    /\ pos' = 1
    /\ keyOp' \in KeyOps
    /\ UNCHANGED <<kind, value, failAt, mode, selSet, filter, log, res, via,
                   submitted, prev, nruns, asked, answer>>

Lone == Cardinality({i \in DOMAIN submitted : submitted[i].what # "entry"})

\* what one method of the adapter does: the calls it makes on sm, and its result
Adapter(what, key, out) ==
    LET newLog == log \o out.calls
    IN /\ log' = newLog
       /\ res' = IF out.err # "" THEN out.err
                 ELSE IF out.calls = <<>> THEN Ok
                 ELSE BackendResult(newLog)
       /\ submitted' = Append(submitted, [what |-> what, key |-> key])
       /\ UNCHANGED <<kind, value, failAt, mode, selSet, filter, via, keyOp,
                      prev, nruns, answer>>

\* the key of the next entry is submitted alone
MapSerializeKey ==
    /\ pc = "map"
    /\ pos <= Len(value)
    /\ Lone < MaxLone
    /\ Adapter("key", value[pos][1], PartialSerializeMap_serialize_key(value[pos][1]))
    /\ UNCHANGED <<pc, pos, asked>>

\* the value of the next entry is submitted alone
MapSerializeValue ==
    /\ pc = "map"
    /\ pos <= Len(value)
    /\ Lone < MaxLone
    /\ Adapter("value", value[pos][1], PartialSerializeMap_serialize_value(value[pos][2]))
    /\ UNCHANGED <<pc, pos, asked>>

\* the next entry is submitted whole
MapSerializeEntry ==
    /\ pc = "map"
    /\ pos <= Len(value)
    /\ Adapter("entry", value[pos][1],
               PartialSerializeMap_serialize_entry(filter, keyOp, value[pos][1],
                                                   value[pos][2]))
    /\ pos' = pos + 1
    /\ asked' = asked \o KeySerializer_asks(keyOp, value[pos][1])
    /\ UNCHANGED pc

MapEnd ==
    /\ pc = "map"
    /\ pos > Len(value)
    /\ Adapter("end", "", PartialSerializeMap_end)
    /\ pc' = "done"
    /\ UNCHANGED <<pos, asked>>

----------------
(* The session goes on with another serialization of the same value *)

NextRun ==
    /\ pc = "done"
    /\ via = "serialize"
    /\ nruns + 1 < MaxRuns
    /\ prev' = [mode |-> mode, selSet |-> selSet, filter |-> filter, log |-> log,
                res |-> res]
    /\ nruns' = nruns + 1
    /\ pc' = "new"
    /\ mode' = "none"
    /\ selSet' = {}
    /\ filter' = NoFilter
    /\ log' = <<>>
    /\ res' = "none"
    /\ pos' = 0
    /\ asked' = <<>>
    /\ UNCHANGED <<kind, value, failAt, via, keyOp, submitted, answer>>

Next ==
    \/ WithFields
    \/ WithoutFields
    \/ Unwrapped
    \/ SerializeStruct
    \/ SerializeField
    \/ SerializeSkipField
    \/ SerializeEnd
    \/ SerializeMapValue
    \/ SerializeOther
    \/ OpenMap
    \/ MapSerializeKey
    \/ MapSerializeValue
    \/ MapSerializeEntry
    \/ MapEnd
    \/ NextRun

Spec == Init /\ [][Next]_vars

----------------------------------------------------------------------------
(* What the backend was given *)

\* the <<key, value>> pairs the calls of a log hand to the backend, in order
RECURSIVE EmittedEntries(_)
EmittedEntries(l) ==
    IF l = <<>> THEN <<>>
    ELSE LET c == Head(l)
             here == CASE c.op \in {"serialize_field", "serialize_entry"} ->
                             <<<<c.key, c.n>>>>
                       [] c.op = "collect_map" -> c.entries
                       [] OTHER -> <<>>
         IN here \o EmittedEntries(Tail(l))

EmittedKeys(l) == {e[1] : e \in Range(EmittedEntries(l))}

\* the calls of a log that account for a struct field
FieldCalls(l) == SelectSeq(l, LAMBDA c : c.op \in {"serialize_field", "skip_field"})

\* the names of the value's Field Set
FieldSetNames == IF kind \in MapKinds THEN Keys(value) ELSE Range(FieldNames(kind))

\* the entries of the value whose key is one of the names
Selected(v, names) == SelectSeq(v, LAMBDA e : e[1] \in names)

----------------------------------------------------------------------------
----------------------------------------------------------------------------
(* C2  Opt-in/opt-out duality.  When the same value has been serialized    *)
(* once through with_fields(S) and once through without_fields(S), S a     *)
(* subset of its fields, and both runs ended without error, the fields     *)
(* given to the backend in one run are exactly the fields of the value     *)
(* not given to it in the other.                                           *)
C2_Duality ==
    (/\ kind \in {"struct", "btree", "hash"}
     /\ pc = "done" /\ res = Ok /\ prev.res = Ok
     /\ {prev.mode, mode} = {"with", "without"}
     /\ prev.selSet = selSet
     /\ selSet \subseteq FieldSetNames) =>
        EmittedKeys(log) = FieldSetNames \ EmittedKeys(prev.log)

----------------------------------------------------------------------------
----------------------------------------------------------------------------
(* C4  Map key-set filtering.  When a BTreeMap or HashMap has been         *)
(* serialized without error through the Partial of with_fields(S), the     *)
(* backend has been given exactly the entries whose key is in S, in the    *)
(* map's iteration order (key order for the BTreeMap).                     *)
C4_MapKeySetFiltering ==
    (/\ kind \in MapKinds /\ via = "serialize" /\ mode = "with"
     /\ pc = "done" /\ res = Ok) =>
        EmittedEntries(log) = Selected(value, selSet)

----------------------------------------------------------------------------
(* C5  Count consistency.  For a map filter (the set filter or the         *)
(* InverseFilter around it): when every entry of the map has been          *)
(* submitted whole with a string key to the map adapter and the run ended  *)
(* without error, a known filtered_len(Some(len)) equals the number of     *)
(* entries the backend was given.                                          *)
C5_CountConsistency ==
    (/\ kind \in MapKinds /\ via = "adapter" /\ keyOp = "serialize_str"
     /\ pc = "done" /\ res = Ok) =>
        LET n == filtered_len(filter, Some(Len(value))) IN
        n # None => n[1] = Len(EmittedEntries(log))

----------------------------------------------------------------------------
KeptEntries ==
    LET whole == SelectSeq(submitted, LAMBDA c :
                     /\ c.what = "entry"
                     /\ keyOp = "serialize_str"
                     /\ ~skip(filter, Field_new(c.key)))
    IN [i \in DOMAIN whole |->
            Call("serialize_entry", whole[i].key, MapValueOf(whole[i].key), <<>>)]

----------------------------------------------------------------------------
(* C7  Lone key/value rejection.  On the map adapter a lone key returns    *)
(* the lone-key error and a lone value the lone-value error; neither       *)
(* makes a call on the backend's map serializer, and the adapter goes on   *)
(* working: at every moment the backend has received exactly the whole     *)
(* entries that were submitted with a string key the filter keeps, in      *)
(* submission order, followed by end once the map is ended, whose result   *)
(* is the backend's.                                                       *)
C7_LoneKeyValueRejected ==
    (via = "adapter" /\ pc \in {"map", "done"}) =>
        LET n == Len(submitted) IN
        /\ (n > 0 /\ submitted[n].what = "key") => res = LONE_KEY_ERR
        /\ (n > 0 /\ submitted[n].what = "value") => res = LONE_VALUE_ERR
        /\ log = KeptEntries \o
                 (IF pc = "done" THEN <<Call("end", "", 0, <<>>)>> ELSE <<>>)
        /\ pc = "done" => res = BackendResult(log)

C7_Witness ==
    /\ via = "adapter" /\ pc = "done" /\ res = Ok
    /\ Len(submitted) = 4
    /\ submitted[1].what = "key"
    /\ submitted[2].what = "value"
    /\ submitted[3].what = "entry"
    /\ log = <<Call("serialize_entry", "a", 11, <<>>), Call("end", "", 0, <<>>)>>

----------------------------------------------------------------------------
(* C8  Non-string map key.  When the key of a whole entry serializes with  *)
(* any Serializer method other than serialize_str, serialize_entry         *)
(* returns the error "key should serialize to a string" and the backend    *)
(* is not given the entry.                                                 *)
C8_NonStringKey ==
    (/\ via = "adapter" /\ pc = "map"
     /\ Len(submitted) > 0
     /\ submitted[Len(submitted)].what = "entry"
     /\ keyOp # "serialize_str") =>
        /\ res = KEY_ERR
        /\ EmittedEntries(log) = <<>>

----------------------------------------------------------------------------
(* C9  Unknown field in the selection, derived container.  When the        *)
(* select closure given to with_fields or without_fields of a derived      *)
(* struct has returned a name that is not a serialized name of the Field   *)
(* Set, the call has panicked: no Partial exists, no result was returned   *)
(* and nothing reaches the backend.                                        *)
C9_UnknownFieldPanics ==
    (/\ kind \notin MapKinds
     /\ mode \in {"with", "without"}
     /\ ~(selSet \subseteq Range(FieldNames(kind)))) =>
        /\ pc = "panicked"
        /\ res = "panic"
        /\ filter = NoFilter
        /\ log = <<>>

C9_Witness ==
    /\ kind = "struct" /\ mode = "without" /\ pc = "panicked"
    /\ selSet = {"age", UnknownName}

----------------------------------------------------------------------------
----------------------------------------------------------------------------
\* the declaration a derived struct kind was generated from
DeclOf(k) ==
    CASE k = "struct" -> UserDecl [] k = "post" -> PostDecl [] k = "tagged" -> EventDecl
\* the in-memory identifiers of a declaration
Idents(decl) == {Ident(decl[i].ident) : i \in DOMAIN decl}

(* C11  Rename correctness and Field Set content.  For a derived struct    *)
(* the Field Set holds one name per declared field that is not marked      *)
(* skip_serializing, in declared order, and these are the names the        *)
(* struct's Serialize impl submits (rename and rename_all applied; for     *)
(* User: fullName, age, contact).  with_fields / without_fields accept     *)
(* exactly these names: a selection holding an in-memory identifier that   *)
(* is no serialized name, or the name of a never-serialized field, has     *)
(* panicked.  Every field call that reaches the backend carries a          *)
(* serialized name, none an identifier that is no serialized name; and     *)
(* once a run has ended without error each field submitted with a value    *)
(* was emitted under its serialized name exactly if the filter selects it  *)
(* (named in S for with_fields, not named for without_fields), skipped     *)
(* under that name otherwise.                                              *)
C11_RenameCorrectness ==
    (kind \in {"struct", "post"}) =>
        LET names == Range(FieldNames(kind))
            idOnly == Idents(DeclOf(kind)) \ names
            kept == IF mode = "with" THEN selSet ELSE names \ selSet
        IN
        /\ FieldNames(kind) = [i \in DOMAIN value |-> value[i][1]]
        /\ kind = "struct" => FieldNames(kind) = UserNames
        /\ Len(FieldNames(kind)) =
              Cardinality({i \in DOMAIN DeclOf(kind) : ~DeclOf(kind)[i].skip_serializing})
        /\ mode \in {"with", "without"} =>
              /\ (pc = "panicked") <=> (selSet \cap (idOnly \cup {SkippedName}) # {})
              /\ \A i \in DOMAIN log :
                    log[i].op \in {"serialize_field", "skip_field"} =>
                        log[i].key \in names /\ log[i].key \notin idOnly
              /\ (pc = "done" /\ res = Ok) =>
                    \A i \in DOMAIN value :
                        LET key == value[i][1] IN
                        /\ (Present(value[i]) /\ key \in kept) <=>
                              (\E j \in DOMAIN log :
                                  log[j].op = "serialize_field" /\ log[j].key = key)
                        /\ ~(Present(value[i]) /\ key \in kept) <=>
                              (\E j \in DOMAIN log :
                                  log[j].op = "skip_field" /\ log[j].key = key)

C11_Witness ==
    /\ kind = "struct" /\ mode = "without" /\ pc = "done" /\ res = Ok
    /\ selSet = {"contact"}
    /\ FieldCalls(log) = <<Call("serialize_field", "fullName", 1, <<>>),
                           Call("serialize_field", "age", 2, <<>>),
                           Call("skip_field", "contact", 0, <<>>)>>

----------------------------------------------------------------------------
\* the keys of the entries that were submitted with their value
PresentKeys(v) ==
    LET pres == SelectSeq(v, Present) IN [i \in DOMAIN pres |-> pres[i][1]]

(* C12  Struct field interception.  While and after a struct is serialized *)
(* through a Partial, the backend's log is serialize_struct followed by    *)
(* one call per field submitted so far, in submission order and with the   *)
(* submitted key: skip_field(key) for a field the value submitted with     *)
(* skip_field (the filter is not asked), skip_field(key) for a field the   *)
(* filter skips (its value goes nowhere), serialize_field(key, value) with *)
(* the value as submitted otherwise.  The filter has been asked once per   *)
(* field submitted with a value, with the Field of its key, in order.      *)
(* What the value's Serialize impl got back from the last call is the      *)
(* backend's result, and the run stopped at the backend's first error.     *)
C12_StructFieldInterception ==
    (/\ kind \in StructKinds /\ mode \in {"with", "without"}
     /\ pc \in {"fields", "done"}) =>
        LET fc == FieldCalls(log) IN
        /\ Len(fc) <= Len(value)
        /\ \A i \in DOMAIN fc :
              LET e == value[i] IN
              /\ log[i + 1] = fc[i]
              /\ fc[i] = IF ~Present(e) THEN Call("skip_field", e[1], 0, <<>>)
                         ELSE IF skip(filter, Field_new(e[1]))
                              THEN Call("skip_field", e[1], 0, <<>>)
                              ELSE Call("serialize_field", e[1], e[2], Nested(e))
        /\ asked = PresentKeys(SubSeq(value, 1, Len(fc)))
        /\ res = BackendResult(log)
        /\ \A i \in 1..(Len(log) - 1) : ~(failAt # 0 /\ i = failAt)

C12_Witness ==
    /\ kind = "post" /\ mode = "with" /\ pc = "done" /\ res = Ok
    /\ selSet = {"note", "meta"}
    /\ ~Present(value[2])
    /\ asked = <<"id", "meta">>
    /\ FieldCalls(log) = <<Call("skip_field", "id", 0, <<>>),
                           Call("skip_field", "note", 0, <<>>),
                           Call("serialize_field", "meta", 0, AuthorValue)>>

----------------------------------------------------------------------------
(* C13  Map entry interception.  On the map adapter, with keys that        *)
(* serialize as strings: the filter has been asked once per whole entry    *)
(* submitted, with the Field of its key, in order; the backend has been    *)
(* given serialize_entry(key, value) for exactly the entries the filter    *)
(* does not skip, in submission order, with key and value as submitted;    *)
(* the submission of a skipped entry returned Ok and that of any other     *)
(* entry the backend's result; end went to the backend once, as its last   *)
(* call, and returned the backend's result.                                *)
C13_MapEntryInterception ==
    (via = "adapter" /\ pc \in {"map", "done"} /\ keyOp = "serialize_str") =>
        LET whole == SubSeq(value, 1, pos - 1)
            kept == SelectSeq(whole, LAMBDA e : ~skip(filter, Field_new(e[1])))
            n == Len(submitted)
        IN
        /\ asked = [i \in DOMAIN whole |-> Field_new(whole[i][1])]
        /\ log = [i \in DOMAIN kept |->
                      Call("serialize_entry", kept[i][1], kept[i][2], <<>>)]
                 \o (IF pc = "done" THEN <<Call("end", "", 0, <<>>)>> ELSE <<>>)
        /\ (n > 0 /\ submitted[n].what = "entry") =>
              res = IF skip(filter, Field_new(submitted[n].key)) THEN Ok
                    ELSE BackendResult(log)
        /\ pc = "done" => res = BackendResult(log)

C13_Witness ==
    /\ via = "adapter" /\ kind = "btree" /\ mode = "with" /\ pc = "done"
    /\ keyOp = "serialize_str"
    /\ selSet = {"c"}
    /\ asked = <<"a", "c">>
    /\ Len(submitted) = 3
    /\ log = <<Call("serialize_entry", "c", 12, <<>>), Call("end", "", 0, <<>>)>>
    /\ res = Ok

----------------------------------------------------------------------------
(* Filters on their own: some SerializeFilter is wrapped in InverseFilters *)
(* and its two methods are called.                                         *)

FilterNames == Range(MapKeys) \cup {UnknownKey}
\* Option<usize> up to the bound
Counts == {None} \cup {Some(n) : n \in 0..MaxTotal}
\* the filters to wrap: the set filters of the maps, and implementors that
\* skip any set of names and report any count or none
InnerFilters ==
    {[shape |-> "set", fields |-> fs] : fs \in SUBSET FilterNames}
    \cup {[shape |-> "user", skips |-> sk, count |-> c] :
             sk \in SUBSET FilterNames, c \in Counts}

RECURSIVE Wraps(_)
Wraps(f) == IF f.shape = "inv" THEN 1 + Wraps(f.inner) ELSE 0

InitFilter ==
    /\ kind = "btree"
    /\ value = <<>>
    /\ failAt = 0
    /\ pc = "new"
    /\ mode = "none"
    /\ selSet = {}
    /\ filter \in InnerFilters
    /\ log = <<>>
    /\ res = "none"
    /\ pos = 0
    /\ via = "filter"
    /\ keyOp = "none"
    /\ submitted = <<>>
    /\ prev = NoRun
    /\ nruns = 0
    /\ asked = <<>>
    /\ answer = NoAnswer

\* InverseFilter::new(filter)
FilterNew ==
    /\ Wraps(filter) < MaxWrap
    /\ filter' = InverseFilter_new(filter)
    /\ pc' = "ready"
    /\ answer' = NoAnswer
    /\ UNCHANGED <<kind, value, failAt, mode, selSet, log, res, pos, via, keyOp,
                   submitted, prev, nruns, asked>>

\* filter.skip(field)
FilterSkip ==
    /\ pc = "ready"
    /\ \E name \in FilterNames :
          answer' = [op |-> "skip", arg |-> name, out |-> skip(filter, Field_new(name))]
    /\ UNCHANGED <<kind, value, failAt, pc, mode, selSet, filter, log, res, pos, via,
                   keyOp, submitted, prev, nruns, asked>>

\* filter.filtered_len(len)
FilterLen ==
    /\ pc = "ready"
    /\ \E len \in Counts :
          answer' = [op |-> "filtered_len", arg |-> len, out |-> filtered_len(filter, len)]
    /\ UNCHANGED <<kind, value, failAt, pc, mode, selSet, filter, log, res, pos, via,
                   keyOp, submitted, prev, nruns, asked>>

NextFilter ==
    \/ FilterNew
    \/ FilterSkip
    \/ FilterLen

SpecFilter == InitFilter /\ [][NextFilter]_vars

----------------------------------------------------------------------------
\* how many calls of an operation a log holds
CountOp(l, op) == Len(SelectSeq(l, LAMBDA c : c.op = op))

(* C15  Begin/end struct.  While and after a struct is serialized through  *)
(* a Partial, the first call the backend received is serialize_struct      *)
(* with the name and the length the value's Serialize impl passed (the     *)
(* number of fields it submits, whatever the filter keeps), and there is   *)
(* no second one; if that call failed the run is over with the backend's   *)
(* error and nothing else was called.  end was called at most once, as     *)
(* the last call, after every field had been submitted, and what the run   *)
(* returned is the backend's result of it.                                 *)
C15_BeginEndStruct ==
    (/\ kind \in StructKinds /\ mode \in {"with", "without"}
     /\ pc \in {"fields", "done"}) =>
        /\ Len(log) >= 1
        /\ log[1] = Call("serialize_struct", StructName(kind), StructLen(value), <<>>)
        /\ CountOp(log, "serialize_struct") = 1
        /\ failAt = 1 => (pc = "done" /\ res = BackendErr /\ Len(log) = 1)
        /\ CountOp(log, "end") <= 1
        /\ CountOp(log, "end") = 1 =>
              /\ pc = "done"
              /\ log[Len(log)] = Call("end", "", 0, <<>>)
              /\ Len(log) = Len(value) + 2
              /\ res = BackendResult(log)
        /\ (pc = "done" /\ CountOp(log, "end") = 0) => res = BackendErr

C15_Witness ==
    /\ kind = "struct" /\ mode = "with" /\ pc = "done"
    /\ selSet = {"age"}
    /\ failAt = 5
    /\ log[1] = Call("serialize_struct", "User", 3, <<>>)
    /\ Len(EmittedEntries(log)) = 1
    /\ log[5] = Call("end", "", 0, <<>>)
    /\ res = BackendErr

----------------------------------------------------------------------------
IsPrefix(a, b) == Len(a) <= Len(b) /\ a = SubSeq(b, 1, Len(a))

(* C16  One level deep.  While and after a Post is serialized through a    *)
(* Partial: the filter has been asked about fields of Post only, at most   *)
(* once each and in their order, never about a field or key of the struct  *)
(* or map held by meta; every field call the backend received carries the  *)
(* key of a field of Post; and the serialize_field call for meta hands     *)
(* the backend the whole nested value, its id included even when the id    *)
(* of Post is excluded.  A run that ended without error and did not skip   *)
(* meta has made that call once.                                           *)
C16_OneLevelDeep ==
    (/\ kind = "post" /\ mode \in {"with", "without"}
     /\ pc \in {"fields", "done"}) =>
        LET fc == FieldCalls(log)
            metaCalls == SelectSeq(log, LAMBDA c :
                             c.op = "serialize_field" /\ c.key = "meta")
        IN
        /\ IsPrefix(asked, PresentKeys(value))
        /\ \A i \in DOMAIN fc : fc[i].key = value[i][1]
        /\ \A i \in DOMAIN metaCalls : metaCalls[i].entries = Nested(value[3])
        /\ (pc = "done" /\ res = Ok) =>
              Len(metaCalls) = IF skip(filter, Field_new("meta")) THEN 0 ELSE 1

C16_Witness ==
    /\ kind = "post" /\ mode = "without" /\ pc = "done" /\ res = Ok
    /\ selSet = {"id"}
    /\ Present(value[2])
    /\ asked = <<"id", "note", "meta">>
    /\ FieldCalls(log) = <<Call("skip_field", "id", 0, <<>>),
                           Call("serialize_field", "note", 2, <<>>),
                           Call("serialize_field", "meta", 0, AuthorValue)>>

----------------------------------------------------------------------------
(* C17  No underflow in the inverted count.  For the Partial that          *)
(* without_fields of a BTreeMap or HashMap returned, and the length of     *)
(* the map as the known total: the count the wrapped set filter reports    *)
(* is at most the total, so that total - count, the count of the           *)
(* InverseFilter, does not fall below zero.                                *)
C17_NoUnderflow ==
    (kind \in MapKinds /\ mode = "without" /\ pc \in {"ready", "map", "done"}) =>
        LET total == Some(Len(value))
            inner == filtered_len(filter.inner, total)
            out == filtered_len(filter, total)
        IN /\ inner[1] <= total[1]
           /\ out[1] >= 0

----------------------------------------------------------------------------
(* C18  No abort while serializing.  For a derived struct, once            *)
(* with_fields or without_fields has returned a Partial, every Field the   *)
(* proxy hands to the generated filter's skip carries a name of the Field  *)
(* Set, and the serialization does not panic: it is under way, or over     *)
(* with Ok or with the backend's error.                                    *)
C18_NoAbortWhileSerializing ==
    (/\ kind \notin MapKinds /\ mode \in {"with", "without"}
     /\ filter # NoFilter) =>
        /\ Range(asked) \subseteq Range(FieldNames(kind))
        /\ pc # "panicked"
        /\ pc = "done" => res \in {Ok, BackendErr}

====
